---- MODULE Spec2Model ----
(***************************************************************************)
(* create-tawala-app: project-name/path resolution, template lookup,       *)
(* template instantiation and the manifest/README rewrite, modelled from   *)
(* src/src/create_tawala_app/__init__.py.                                  *)
(*                                                                         *)
(* Representation.                                                         *)
(*   - A string is a sequence of one-character tokens ("a", "9", "_", ...).*)
(*     File names of the template are one-token strings ("pyproject.toml").*)
(*   - An Optional[T] value is a sequence of length 0 (None) or 1.         *)
(*   - A path is the sequence of components below cwd: << >> is cwd, and   *)
(*     <<n>> is cwd / n.                                                   *)
(*   - The filesystem below cwd is a function from paths to contents.      *)
(***************************************************************************)
EXTENDS Integers, Sequences, FiniteSets, TLC

VARIABLES
    args,           \* argparse.Namespace: [name, template, dry]
    cwd_name,       \* self.cwd.name, the base name of the current directory
    fs,             \* the filesystem below (and including) cwd: path -> content
    fs0,            \* the filesystem when the process started (history)
    raced,          \* Optional: the filesystem as another process left it (history)
    templates,      \* Optional listing of templates_dir: name -> "dir" | "file" | "absent"
    tpl,            \* the tree under template_path: relative path -> content
    project_name,   \* self.project_name: Optional[str]
    project_path,   \* self.project_path
    pc,             \* position of the process inside create()
    resolved,       \* _validate_project_path_availability has returned to create()
    prompts,        \* number of prompts issued (saturates at MaxPrompts)
    diag,           \* Optional: the name of the last validator diagnostic printed
    diagTick,       \* parity of the number of validator diagnostics printed
    asked,          \* the prompt issued last: "none" or the pc of that prompt
    reply,          \* Optional: the stripped line input() returned for that prompt
    copyLeft,       \* top-level template items not yet visited by the copy loop
    wrote,          \* filesystem writes performed so far, in order of first occurrence
    err,            \* what ended the try block: "none" or the failure kind
    errLines,       \* number of "Error:" / "Unexpected Error:" lines printed
    listed,         \* template names enumerated in the template-not-found message
    notice,         \* the cancellation notice was printed
    outcome,        \* "running" | "returned" | "escaped" (exception left create())
    exit_code,      \* Optional[ExitCode] returned by create()
    v_in,           \* validator harness: the string under test
    v_out,          \* validator harness: Optional[bool] result of is_valid
    v_msg           \* validator harness: Optional rule named by get_error_message

vars == << args, cwd_name, fs, fs0, raced, templates, tpl, project_name, project_path,
           pc, resolved, prompts, diag, diagTick, asked, reply, copyLeft, wrote, err, errLines, listed,
           notice, outcome, exit_code, v_in, v_out, v_msg >>

(***************************************************************************)
(* Bounds                                                                  *)
(***************************************************************************)
MaxLen == 3         \* longest string fed to the validator harness
MaxPrompts == 2     \* the prompt counter saturates here

(***************************************************************************)
(* ExitCode                                                                *)
(***************************************************************************)
SUCCESS == 0
ERROR == 1
KEYBOARD_INTERRUPT == 3

(***************************************************************************)
(* Characters                                                              *)
(***************************************************************************)
Letters == {"a", "b", "i", "f"}
Digits == {"9"}
Whitespace == {" ", "\n"}
Alphabet == Letters \cup Digits \cup {"_", "-", "\n"}

\* keyword.iskeyword, restricted to the keywords spelled over Letters
Keywords == { <<"i", "f">> }

iskeyword(s) == s \in Keywords

None == << >>
Some(x) == << x >>
EmptyStr == << >>

Front(s) == SubSeq(s, 1, Len(s) - 1)

AllIn(s, S) == \A k \in 1..Len(s) : s[k] \in S

(***************************************************************************)
(* ProjectNameValidator                                                    *)
(***************************************************************************)
\* Python's "$": at the end of the string, or just before a newline that is
\* the last character.  The strings t such that "X$" matching s from its
\* start means X matching exactly t.
DollarBodies(s) ==
    {s} \cup (IF Len(s) >= 1 /\ s[Len(s)] = "\n" THEN {Front(s)} ELSE {})

\* ^[a-zA-Z_][a-zA-Z0-9_]*[a-zA-Z0-9]   consuming exactly t
ShapeLong(t) ==
    /\ Len(t) >= 2
    /\ t[1] \in Letters \cup {"_"}
    /\ AllIn(t, Letters \cup Digits \cup {"_"})
    /\ t[Len(t)] \in Letters \cup Digits

\* ^[a-zA-Z]   consuming exactly t
ShapeSingle(t) == Len(t) = 1 /\ t[1] \in Letters

is_valid(name) ==
    /\ name # EmptyStr
    /\ ~iskeyword(name)
    /\ \E t \in DollarBodies(name) : ShapeLong(t) \/ ShapeSingle(t)

\* re.match(r"^[a-zA-Z_]", name)
MatchesStart(name) == Len(name) >= 1 /\ name[1] \in Letters \cup {"_"}

\* re.match(r"[a-zA-Z0-9]$", name): re.match anchors the pattern at the
\* start of the string, so the one character it consumes is the first one
MatchesEnd(name) ==
    \E t \in DollarBodies(name) : Len(t) = 1 /\ t[1] \in Letters \cup Digits

\* re.match(r"^[a-zA-Z0-9_]+$", name)
MatchesCharacters(name) ==
    \E t \in DollarBodies(name) :
        Len(t) >= 1 /\ AllIn(t, Letters \cup Digits \cup {"_"})

\* get_error_message: the message is named by the rule it reports
get_error_message(name) ==
    IF name = EmptyStr THEN "empty"
    ELSE IF iskeyword(name) THEN "keyword"
    ELSE IF ~MatchesStart(name) THEN "start"
    ELSE IF ~MatchesEnd(name) THEN "end"
    ELSE IF ~MatchesCharacters(name) THEN "characters"
    ELSE "not a valid package name"

(***************************************************************************)
(* str.strip() as applied to the line returned by input()                  *)
(***************************************************************************)
RECURSIVE lstrip(_)
lstrip(s) ==
    IF s # << >> /\ s[1] \in Whitespace THEN lstrip(Tail(s)) ELSE s

RECURSIVE rstrip(_)
rstrip(s) ==
    IF s # << >> /\ s[Len(s)] \in Whitespace THEN rstrip(Front(s)) ELSE s

strip(s) == rstrip(lstrip(s))

(***************************************************************************)
(* Paths and the filesystem                                                *)
(***************************************************************************)
Cwd == << >>

\* pathlib: cwd / n.  Joining "" or "." gives cwd itself.
Join(n) == IF n \in {EmptyStr, <<".">>} THEN Cwd ELSE << n >>

Exists(p) == p \in DOMAIN fs

\* any(self.cwd.iterdir())
CwdNonEmpty == \E p \in DOMAIN fs : Len(p) = 1

Truthy(opt) == opt # None /\ opt[1] # EmptyStr

\* _calculate_project_path, for the constructor's project_name
calculate_project_path(name) == IF Truthy(name) THEN Join(name[1]) ELSE Cwd

should_use_existing_path_NoEmptyCheck ==
    /\ Exists(project_path)
    /\ project_path = Cwd

should_use_existing_path ==
    /\ Exists(project_path)
    /\ project_path = Cwd
    /\ ~CwdNonEmpty

(***************************************************************************)
(* File contents                                                           *)
(***************************************************************************)
Dir == [kind |-> "dir", lines |-> << >>, text |-> << >>]
PlainFile(t) == [kind |-> "file", lines |-> << >>, text |-> t]
ManifestFile(ls) == [kind |-> "file", lines |-> ls, text |-> << >>]

PYPROJECT == << "pyproject.toml" >>
README == << "README.md" >>
APP == << "app" >>
MODELS == << "models.py" >>

\* One "key = value" line of pyproject.toml.  style "plain" is  key = "val"
\* (or single-quoted); style "other" is any other spelling of the same
\* key/value that TOML accepts (quoted key, multi-line string, escapes).
Line(tb, k, v, st) == [table |-> tb, key |-> k, val |-> v, style |-> st]

\* tomllib.load: duplicate keys of one table are a TOMLDecodeError
TomlValid(ls) ==
    \A i, j \in 1..Len(ls) :
        (ls[i].table = ls[j].table /\ ls[i].key = ls[j].key) => i = j

\* pyproject_data["project"]["name"], None when the table or the key is missing
ParsedProjectName(ls) ==
    LET hits == { i \in 1..Len(ls) : ls[i].table = "project" /\ ls[i].key = "name" }
    IN  IF hits = {} THEN None ELSE Some(ls[CHOOSE i \in hits : TRUE].val)

\* The text of the line contains  name\s*=\s*["']<old>["']
\* (a key that merely ends in "name" contains it too).
PatternMatches(l, old) ==
    /\ l.key \in {"name", "full_name"}
    /\ l.style = "plain"
    /\ l.val = old

PatternHits(ls, old) == { i \in 1..Len(ls) : PatternMatches(ls[i], old) }

\* re.sub(pattern, replacement, content, count=1)
SubFirst(ls, old, new) ==
    LET hits == PatternHits(ls, old)
    IN  IF hits = {} THEN ls
        ELSE LET k == CHOOSE i \in hits : \A j \in hits : i <= j
             IN  [ls EXCEPT ![k].val = new]

\* _generate_readme_content with the heading line left out
generate_readme_content_NoHeading(name) ==
    <<"\n", "Created with Tawala CLI", "\n">>

\* _generate_readme_content
generate_readme_content(name) ==
    <<"# ">> \o name \o <<"\n", "\n", "Created with Tawala CLI", "\n">>

(***************************************************************************)
(* Templates                                                               *)
(***************************************************************************)
TemplateNames == {"vercel", "blog"}

\* _validate_template's condition:  exists() and is_dir()
TemplateIsDir ==
    /\ templates # None
    /\ templates[1][args.template] = "dir"

get_available_templates_AllEntries ==
    IF templates = None THEN {}
    ELSE { n \in TemplateNames : templates[1][n] # "absent" }

\* _get_available_templates
get_available_templates ==
    IF templates = None THEN {}
    ELSE { n \in TemplateNames : templates[1][n] = "dir" }

\* the top-level entries of the template, self.template_path.iterdir()
TopItems == { p[1] : p \in { q \in DOMAIN tpl : Len(q) = 1 } }

(***************************************************************************)
(* Inputs                                                                  *)
(***************************************************************************)
\* the positional "name" argument: absent, or a string
ArgNames ==
    { None, Some(EmptyStr), Some(<<"a">>), Some(<<"a", "b">>), Some(<<"9">>),
      Some(<<".">>) }

\* the lines a user may type at a prompt, before strip()
RawResponses ==
    { << >>, <<" ">>, <<" ", "a">>, <<"b">>, <<"a", "b">>, <<"9">>, <<"i", "f">> }

CwdNames == { <<"a">>, <<"b">>, <<"9">> }

\* the entries present in cwd when the process starts
CwdEntrySets == { {}, { <<"a">> }, { <<"a">>, <<"a", "b">> } }

InitialFs(entries) ==
    [ p \in {Cwd} \cup { <<n>> : n \in entries } |-> Dir ]

TemplateRoots ==
    { None,
      Some([n \in TemplateNames |-> "absent"]),
      Some([n \in TemplateNames |-> IF n = "vercel" THEN "file" ELSE "dir"]),
      Some([n \in TemplateNames |-> "dir"]) }

OldName == <<"a">>
Version == <<"9">>

Manifests ==
    { \* the usual layout
      << Line("project", "name", OldName, "plain"),
         Line("project", "version", Version, "plain") >>,
      \* another table carries the same  name = "<old>"  text above [project]
      << Line("tool", "name", OldName, "plain"),
         Line("project", "name", OldName, "plain") >>,
      \* ... or below it
      << Line("project", "name", OldName, "plain"),
         Line("tool", "full_name", OldName, "plain") >>,
      \* project.name spelled in a way the pattern does not cover
      << Line("project", "name", OldName, "other") >>,
      \* no project.name
      << Line("project", "version", Version, "plain") >>,
      \* not valid TOML
      << Line("project", "name", OldName, "plain"),
         Line("project", "name", Version, "plain") >> }

TemplateReadme == PlainFile(<<"# Tawala template\n">>)

\* a template README of several lines that already carries an attribution
LongReadme ==
    PlainFile(<<"# ", "a", "\n", "\n", "Created with Tawala CLI", "\n",
                "Usage", "\n">>)

BaseTree ==
    [ p \in { <<APP>>, <<APP, MODELS>> } |->
        IF p = <<APP>> THEN Dir ELSE PlainFile(<<"from django.db import models\n">>) ]

WithFile(tree, name, content) == ( <<name>> :> content ) @@ tree

TemplateTrees ==
    { WithFile(WithFile(BaseTree, PYPROJECT, ManifestFile(m)), README, TemplateReadme)
        : m \in Manifests }
    \cup { WithFile(BaseTree, README, TemplateReadme),
           WithFile(BaseTree, PYPROJECT, ManifestFile(
               << Line("project", "name", OldName, "plain"),
                  Line("project", "version", Version, "plain") >>)),
           WithFile(WithFile(BaseTree, PYPROJECT, ManifestFile(
               << Line("project", "name", OldName, "plain"),
                  Line("project", "version", Version, "plain") >>)),
               README, LongReadme) }

EmptyTree == [ p \in {} |-> Dir ]

(***************************************************************************)
(* Initial state: TawalaProjectCreator.__init__                            *)
(***************************************************************************)
Init ==
    /\ args \in [name : ArgNames, template : {"vercel"}, dry : BOOLEAN]
    /\ cwd_name \in CwdNames
    /\ \E entries \in CwdEntrySets : fs = InitialFs(entries)
    /\ fs0 = fs
    /\ raced = None
    /\ templates \in TemplateRoots
    /\ tpl \in (IF TemplateIsDir THEN TemplateTrees ELSE {EmptyTree})
    /\ project_name = args.name
    /\ project_path = calculate_project_path(args.name)
    /\ pc = "create"
    /\ resolved = FALSE
    /\ prompts = 0
    /\ diag = None
    /\ diagTick = FALSE
    /\ asked = "none"
    /\ reply = None
    /\ copyLeft = {}
    /\ wrote = {}
    /\ err = "none"
    /\ errLines = 0
    /\ listed = {}
    /\ notice = FALSE
    /\ outcome = "running"
    /\ exit_code = None
    /\ v_in = << >>
    /\ v_out = None
    /\ v_msg = None

harnessVars == << v_in, v_out, v_msg >>
\* what the process never writes: its inputs and the histories of the filesystem
inputVars == << args, cwd_name, fs0, raced, templates, tpl >>
reportVars == << err, errLines, listed, notice, outcome, exit_code >>
resolutionVars ==
    << project_name, project_path, resolved, prompts, diag, diagTick, asked, reply >>

Bump(n) == IF n < MaxPrompts THEN n + 1 ELSE n

(***************************************************************************)
(* create(): the handlers of the try statement                             *)
(***************************************************************************)
\* an exception other than KeyboardInterrupt leaves the try block:
\* "except FileNotFoundError" and "except Exception" both print one line
\* and return ExitCode.ERROR
Raise(kind) ==
    /\ err' = kind
    /\ errLines' = errLines + 1
    /\ exit_code' = Some(ERROR)
    /\ outcome' = "returned"
    /\ pc' = "done"
    /\ UNCHANGED << notice >>

RaiseErr(kind) == Raise(kind) /\ UNCHANGED listed

\* the positions inside the try block
TryPcs ==
    { "create", "resolve", "prompt_unnamed", "prompt_named", "avail",
      "prompt_avail", "validate_template", "create_structure", "copy",
      "update_pyproject", "update_readme" }

PromptPcs == { "prompt_unnamed", "prompt_named", "prompt_avail" }

\* the two cprint calls that open create()
CreateBegin ==
    /\ pc = "create"
    /\ pc' = "resolve"
    /\ UNCHANGED << fs, copyLeft, wrote >>
    /\ UNCHANGED resolutionVars
    /\ UNCHANGED reportVars
    /\ UNCHANGED inputVars
    /\ UNCHANGED harnessVars

(***************************************************************************)
(* _resolve_project_path                                                   *)
(***************************************************************************)
frameResolution ==
    /\ UNCHANGED << fs, copyLeft, wrote >>
    /\ UNCHANGED reportVars
    /\ UNCHANGED inputVars
    /\ UNCHANGED harnessVars

\* _handle_unnamed_project, up to the prompt or to its return
HandleUnnamed ==
    /\ pc = "resolve"
    /\ project_name = None
    /\ IF CwdNonEmpty
       THEN /\ pc' = "prompt_unnamed"
            /\ asked' = "prompt_unnamed"
            /\ reply' = None
            /\ prompts' = Bump(prompts)
            /\ UNCHANGED << project_name, project_path, diag, diagTick >>
       ELSE IF is_valid(cwd_name)
            THEN /\ project_name' = Some(cwd_name)
                 /\ pc' = "avail"
                 /\ UNCHANGED << asked, reply >>
                 /\ UNCHANGED << project_path, prompts, diag, diagTick >>
            ELSE /\ diag' = Some(cwd_name)
                 /\ diagTick' = ~diagTick
                 /\ project_name' = None
                 /\ pc' = "resolve"
                 /\ UNCHANGED << project_path, prompts, asked, reply >>
    /\ UNCHANGED resolved
    /\ frameResolution

\* _handle_unnamed_project, from the return of input()
ReplyUnnamed(raw) ==
    /\ pc = "prompt_unnamed"
    /\ LET r == strip(raw)
       IN  IF r = EmptyStr
           THEN /\ project_name' = Some(r)
                /\ pc' = "resolve"
                /\ UNCHANGED << project_path, diag, diagTick >>
           ELSE IF ~is_valid(r)
                THEN /\ diag' = Some(r)
                     /\ diagTick' = ~diagTick
                     /\ project_name' = None
                     /\ pc' = "resolve"
                     /\ UNCHANGED project_path
                ELSE /\ project_name' = Some(r)
                     /\ project_path' = Join(r)
                     /\ pc' = "avail"
                     /\ UNCHANGED << diag, diagTick >>
    /\ reply' = Some(strip(raw))
    /\ UNCHANGED << resolved, prompts, asked >>
    /\ frameResolution

\* _handle_named_project, up to the prompt or to its return
HandleNamed ==
    /\ pc = "resolve"
    /\ project_name # None
    /\ IF Truthy(project_name) /\ ~is_valid(project_name[1])
       THEN /\ diag' = project_name
            /\ diagTick' = ~diagTick
            /\ pc' = "prompt_named"
            /\ asked' = "prompt_named"
            /\ reply' = None
            /\ prompts' = Bump(prompts)
       ELSE /\ pc' = "avail"
            /\ UNCHANGED << diag, diagTick, prompts, asked, reply >>
    /\ UNCHANGED << project_name, project_path, resolved >>
    /\ frameResolution

\* _handle_named_project, from the return of input()
ReplyNamed(raw) ==
    /\ pc = "prompt_named"
    /\ LET r == strip(raw)
       IN  IF r = EmptyStr
           THEN /\ project_name' = None
                /\ UNCHANGED project_path
           ELSE /\ project_name' = Some(r)
                /\ project_path' = Join(r)
    /\ pc' = "resolve"
    /\ reply' = Some(strip(raw))
    /\ UNCHANGED << resolved, prompts, diag, diagTick, asked >>
    /\ frameResolution

(***************************************************************************)
(* _validate_project_path_availability                                     *)
(***************************************************************************)
\* one pass of the loop, up to the prompt or to the return
CheckAvailability ==
    /\ pc = "avail"
    /\ IF should_use_existing_path \/ ~Exists(project_path)
       THEN /\ resolved' = TRUE
            /\ pc' = "validate_template"
            /\ UNCHANGED << prompts, asked, reply >>
       ELSE /\ pc' = "prompt_avail"
            /\ asked' = "prompt_avail"
            /\ reply' = None
            /\ prompts' = Bump(prompts)
            /\ UNCHANGED resolved
    /\ UNCHANGED << project_name, project_path, diag, diagTick >>
    /\ frameResolution

\* the loop body from the return of input(), with the call of
\* _resolve_project_path after an empty response left out
ReplyAvailability_NoRestart(raw) ==
    /\ pc = "prompt_avail"
    /\ LET r == strip(raw)
       IN  IF r = EmptyStr
           THEN /\ project_name' = None
                /\ pc' = "avail"
                /\ UNCHANGED << project_path, diag, diagTick >>
           ELSE IF ~is_valid(r)
                THEN /\ project_name' = Some(r)
                     /\ diag' = Some(r)
                     /\ diagTick' = ~diagTick
                     /\ pc' = "avail"
                     /\ UNCHANGED project_path
                ELSE /\ project_name' = Some(r)
                     /\ project_path' = Join(r)
                     /\ pc' = "avail"
                     /\ UNCHANGED << diag, diagTick >>
    /\ reply' = Some(strip(raw))
    /\ UNCHANGED << resolved, prompts, asked >>
    /\ frameResolution

\* the loop body from the return of input()
ReplyAvailability(raw) ==
    /\ pc = "prompt_avail"
    /\ LET r == strip(raw)
       IN  IF r = EmptyStr
           THEN /\ project_name' = None
                /\ pc' = "resolve"
                /\ UNCHANGED << project_path, diag, diagTick >>
           ELSE IF ~is_valid(r)
                THEN /\ project_name' = Some(r)
                     /\ diag' = Some(r)
                     /\ diagTick' = ~diagTick
                     /\ pc' = "avail"
                     /\ UNCHANGED project_path
                ELSE /\ project_name' = Some(r)
                     /\ project_path' = Join(r)
                     /\ pc' = "avail"
                     /\ UNCHANGED << diag, diagTick >>
    /\ reply' = Some(strip(raw))
    /\ UNCHANGED << resolved, prompts, asked >>
    /\ frameResolution

\* _validate_template with the is_dir test left out
ValidateTemplate_NoCheck ==
    /\ pc = "validate_template"
    /\ pc' = "create_structure"
    /\ UNCHANGED reportVars
    /\ UNCHANGED << fs, copyLeft, wrote >>
    /\ UNCHANGED resolutionVars
    /\ UNCHANGED inputVars
    /\ UNCHANGED harnessVars

(***************************************************************************)
(* _validate_template                                                      *)
(***************************************************************************)
ValidateTemplate ==
    /\ pc = "validate_template"
    /\ IF ~TemplateIsDir
       THEN /\ listed' = get_available_templates
            /\ Raise("TemplateNotFound")
       ELSE /\ pc' = "create_structure"
            /\ UNCHANGED reportVars
    /\ UNCHANGED << fs, copyLeft, wrote >>
    /\ UNCHANGED resolutionVars
    /\ UNCHANGED inputVars
    /\ UNCHANGED harnessVars

(***************************************************************************)
(* _create_project_structure, _copy_template_files                         *)
(***************************************************************************)
create_project_structure_dry_Ignored == FALSE

\* the branch condition of _create_project_structure
create_project_structure_dry == args.dry

\* create(): "if not self.args.dry: self._after_creation_setup()"
AfterStructurePc == IF ~args.dry THEN "update_pyproject" ELSE "print_success"

framePipeline ==
    /\ UNCHANGED resolutionVars
    /\ UNCHANGED inputVars
    /\ UNCHANGED harnessVars

\* dry: _show_dry_run_output (prints only).
\* real: _copy_template_files up to the copy loop (mkdir of a new directory).
CreateStructure ==
    /\ pc = "create_structure"
    /\ IF create_project_structure_dry
       THEN /\ pc' = AfterStructurePc
            /\ UNCHANGED << fs, copyLeft, wrote >>
            /\ UNCHANGED reportVars
       ELSE IF project_path # Cwd /\ Exists(project_path)
            THEN /\ RaiseErr("DestinationExists")
                 /\ UNCHANGED << fs, copyLeft, wrote >>
            ELSE /\ IF project_path # Cwd
                    THEN /\ fs' = (project_path :> Dir) @@ fs
                         /\ wrote' = wrote \cup {"mkdir"}
                    ELSE UNCHANGED << fs, wrote >>
                 /\ copyLeft' = TopItems
                 /\ pc' = IF TopItems = {} THEN AfterStructurePc ELSE "copy"
                 /\ UNCHANGED reportVars
    /\ framePipeline

\* the paths of the template below (and including) its top-level entry item
Subtree(item) == { q \in DOMAIN tpl : q[1] = item }

\* shutil.copytree(item, destination) for a new destination
CopiedTree(item) ==
    [ p \in { project_path \o q : q \in Subtree(item) } |->
        tpl[SubSeq(p, Len(project_path) + 1, Len(p))] ]

\* one iteration of the copy loop
CopyItem(item) ==
    /\ pc = "copy"
    /\ item \in copyLeft
    /\ LET destination == project_path \o << item >>
       IN  IF tpl[<< item >>].kind = "dir"
           THEN IF Exists(destination)
                THEN /\ RaiseErr("DestinationExists")
                     /\ UNCHANGED << fs, copyLeft, wrote >>
                ELSE /\ fs' = CopiedTree(item) @@ fs
                     /\ wrote' = wrote \cup {"copy"}
                     /\ copyLeft' = copyLeft \ {item}
                     /\ pc' = IF copyLeft' = {} THEN AfterStructurePc ELSE "copy"
                     /\ UNCHANGED reportVars
           ELSE \* shutil.copy2: into an existing directory, else onto the path
                LET target == IF Exists(destination) /\ fs[destination].kind = "dir"
                              THEN destination \o << item >>
                              ELSE destination
                IN  /\ fs' = (target :> tpl[<< item >>]) @@ fs
                    /\ wrote' = wrote \cup {"copy"}
                    /\ copyLeft' = copyLeft \ {item}
                    /\ pc' = IF copyLeft' = {} THEN AfterStructurePc ELSE "copy"
                    /\ UNCHANGED reportVars
    /\ framePipeline

(***************************************************************************)
(* _after_creation_setup                                                   *)
(***************************************************************************)
\* _update_pyproject_toml, _get_old_project_name, _replace_project_name_in_file
UpdatePyproject ==
    /\ pc = "update_pyproject"
    /\ LET pyproject_path == project_path \o << PYPROJECT >>
       IN  IF ~Exists(pyproject_path)
           THEN /\ RaiseErr("ManifestMissing")
                /\ UNCHANGED << fs, wrote >>
           ELSE LET content == fs[pyproject_path].lines
                IN  IF ~TomlValid(content)
                    THEN /\ RaiseErr("TOMLDecodeError")
                         /\ UNCHANGED << fs, wrote >>
                    ELSE IF ParsedProjectName(content) = None
                    THEN /\ RaiseErr("FieldMissing")
                         /\ UNCHANGED << fs, wrote >>
                    ELSE LET old_name == ParsedProjectName(content)[1]
                             updated_content ==
                                 SubFirst(content, old_name, project_name[1])
                         IN  IF updated_content = content
                             THEN /\ RaiseErr("PatternMismatch")
                                  /\ UNCHANGED << fs, wrote >>
                             ELSE /\ fs' = [fs EXCEPT ![pyproject_path].lines =
                                                          updated_content]
                                  /\ wrote' = wrote \cup {"manifest"}
                                  /\ pc' = "update_readme"
                                  /\ UNCHANGED reportVars
    /\ UNCHANGED copyLeft
    /\ framePipeline

\* _update_readme with a missing README.md passed over in silence
UpdateReadme_SkipMissing ==
    /\ pc = "update_readme"
    /\ LET readme_path == project_path \o << README >>
       IN  IF ~Exists(readme_path)
           THEN UNCHANGED << fs, wrote >>
           ELSE /\ fs' = [fs EXCEPT ![readme_path] =
                             PlainFile(generate_readme_content(project_name[1]))]
                /\ wrote' = wrote \cup {"readme"}
    /\ pc' = "print_success"
    /\ UNCHANGED reportVars
    /\ UNCHANGED copyLeft
    /\ framePipeline

\* _update_readme undoing the run's writes before it reports a missing README.md
UpdateReadme_RollbackOnMissing ==
    /\ pc = "update_readme"
    /\ LET readme_path == project_path \o << README >>
       IN  IF ~Exists(readme_path)
           THEN /\ RaiseErr("ReadmeMissing")
                /\ fs' = fs0
                /\ UNCHANGED wrote
           ELSE /\ fs' = [fs EXCEPT ![readme_path] =
                             PlainFile(generate_readme_content(project_name[1]))]
                /\ wrote' = wrote \cup {"readme"}
                /\ pc' = "print_success"
                /\ UNCHANGED reportVars
    /\ UNCHANGED copyLeft
    /\ framePipeline

\* _update_readme
UpdateReadme ==
    /\ pc = "update_readme"
    /\ LET readme_path == project_path \o << README >>
       IN  IF ~Exists(readme_path)
           THEN /\ RaiseErr("ReadmeMissing")
                /\ UNCHANGED << fs, wrote >>
           ELSE /\ fs' = [fs EXCEPT ![readme_path] =
                             PlainFile(generate_readme_content(project_name[1]))]
                /\ wrote' = wrote \cup {"readme"}
                /\ pc' = "print_success"
                /\ UNCHANGED reportVars
    /\ UNCHANGED copyLeft
    /\ framePipeline

(***************************************************************************)
(* create(): else clause, except clauses                                   *)
(***************************************************************************)
\* else: _print_success_message(); return ExitCode.SUCCESS
PrintSuccess ==
    /\ pc = "print_success"
    /\ pc' = "done"
    /\ exit_code' = Some(SUCCESS)
    /\ outcome' = "returned"
    /\ UNCHANGED << err, errLines, listed, notice >>
    /\ UNCHANGED << fs, copyLeft, wrote >>
    /\ framePipeline

\* KeyboardInterrupt raised inside the try block
InterruptInTry ==
    /\ pc \in TryPcs
    /\ pc' = "done"
    /\ err' = "KeyboardInterrupt"
    /\ notice' = TRUE
    /\ exit_code' = Some(KEYBOARD_INTERRUPT)
    /\ outcome' = "returned"
    /\ UNCHANGED << errLines, listed >>
    /\ UNCHANGED << fs, copyLeft, wrote >>
    /\ framePipeline

\* KeyboardInterrupt raised in the else clause: no handler of create() or
\* main() covers it
InterruptInElse ==
    /\ pc = "print_success"
    /\ pc' = "done"
    /\ err' = "KeyboardInterrupt"
    /\ outcome' = "escaped"
    /\ UNCHANGED << errLines, listed, notice, exit_code >>
    /\ UNCHANGED << fs, copyLeft, wrote >>
    /\ framePipeline

\* input() at end of file raises EOFError, an Exception
InputEOF ==
    /\ pc \in PromptPcs
    /\ RaiseErr("EOFError")
    /\ UNCHANGED << fs, copyLeft, wrote >>
    /\ framePipeline

(***************************************************************************)
(* Specification                                                           *)
(***************************************************************************)
ProgramStep ==
    \/ CreateBegin
    \/ HandleUnnamed
    \/ HandleNamed
    \/ CheckAvailability
    \/ ValidateTemplate
    \/ CreateStructure
    \/ \E item \in copyLeft : CopyItem(item)
    \/ UpdatePyproject
    \/ UpdateReadme
    \/ PrintSuccess

UserStep ==
    \/ \E raw \in RawResponses : ReplyUnnamed(raw)
    \/ \E raw \in RawResponses : ReplyNamed(raw)
    \/ \E raw \in RawResponses : ReplyAvailability(raw)
    \/ InputEOF
    \/ InterruptInTry
    \/ InterruptInElse

Next == ProgramStep \/ UserStep

(***************************************************************************)
(* Another process writing below cwd between resolution and instantiation  *)
(***************************************************************************)
NOTES == << "notes.txt" >>

ForeignFile == PlainFile(<<"written by another process\n">>)

\* the entry the other process leaves in the destination: one the template
\* also has as a file, one it has as a directory, one it does not have
ForeignEntries == { README, APP, NOTES }

\* Once, after _validate_project_path_availability has returned and before
\* _copy_template_files starts, the destination comes to exist with one
\* entry in it.
ExternalPopulate(entry) ==
    /\ resolved
    /\ pc \in {"validate_template", "create_structure"}
    /\ raced = None
    /\ fs' = ((project_path \o << entry >>) :> ForeignFile)
                 @@ (project_path :> Dir) @@ fs
    /\ raced' = Some(fs')
    /\ UNCHANGED << args, cwd_name, fs0, templates, tpl >>
    /\ UNCHANGED << pc, copyLeft, wrote >>
    /\ UNCHANGED resolutionVars
    /\ UNCHANGED reportVars
    /\ UNCHANGED harnessVars

NextRace == Next \/ \E entry \in ForeignEntries : ExternalPopulate(entry)

\* the run of Spec with the other process present
SpecRace == Init /\ [][NextRace]_vars

Spec == Init /\ [][Next]_vars

\* the process is single-threaded and never blocks except in input():
\* whenever a program step can change the state, one is taken
FairSpec == Init /\ [][Next]_vars /\ WF_vars(ProgramStep)

(***************************************************************************)
(* Validator harness: ProjectNameValidator applied to every short string   *)
(***************************************************************************)
Strings(n) == UNION { [1..k -> Alphabet] : k \in 0..n }

InitValidator ==
    /\ v_in \in Strings(MaxLen)
    /\ v_out = None
    /\ v_msg = None
    /\ pc = "validator"
    /\ args = [name |-> None, template |-> "vercel", dry |-> TRUE]
    /\ cwd_name = <<"a">>
    /\ fs = InitialFs({})
    /\ fs0 = fs
    /\ raced = None
    /\ templates = None
    /\ tpl = EmptyTree
    /\ project_name = None
    /\ project_path = Cwd
    /\ resolved = FALSE
    /\ prompts = 0
    /\ diag = None
    /\ diagTick = FALSE
    /\ asked = "none"
    /\ reply = None
    /\ copyLeft = {}
    /\ wrote = {}
    /\ err = "none"
    /\ errLines = 0
    /\ listed = {}
    /\ notice = FALSE
    /\ outcome = "running"
    /\ exit_code = None

CallIsValid ==
    /\ pc = "validator"
    /\ v_out = None
    /\ v_out' = Some(is_valid(v_in))
    /\ pc' = "validated"
    /\ UNCHANGED << v_in, v_msg >>
    /\ UNCHANGED << fs, copyLeft, wrote >>
    /\ UNCHANGED resolutionVars
    /\ UNCHANGED reportVars
    /\ UNCHANGED inputVars

\* the callers ask for the message of a name that is_valid rejected
CallGetErrorMessage ==
    /\ pc = "validated"
    /\ v_out = Some(FALSE)
    /\ v_msg' = Some(get_error_message(v_in))
    /\ pc' = "reported"
    /\ UNCHANGED << v_in, v_out >>
    /\ UNCHANGED << fs, copyLeft, wrote >>
    /\ UNCHANGED resolutionVars
    /\ UNCHANGED reportVars
    /\ UNCHANGED inputVars

NextValidator == CallIsValid \/ CallGetErrorMessage

SpecValidator == InitValidator /\ [][NextValidator]_vars

(***************************************************************************)
(* Properties                                                              *)
(***************************************************************************)
InitiallyEmptyCwd == ~ \E p \in DOMAIN fs0 : Len(p) = 1

HasManifest(tree) == << PYPROJECT >> \in DOMAIN tree

\* the template ships a manifest that parses and has project.name
TemplateHasProjectName ==
    /\ HasManifest(tpl)
    /\ TomlValid(tpl[<< PYPROJECT >>].lines)
    /\ ParsedProjectName(tpl[<< PYPROJECT >>].lines) # None

TemplateOldName == ParsedProjectName(tpl[<< PYPROJECT >>].lines)[1]

\* the text  name = "<old>"  occurs in the template's manifest
TemplatePatternPresent ==
    PatternHits(tpl[<< PYPROJECT >>].lines, TemplateOldName) # {}

DestManifest == fs[project_path \o << PYPROJECT >>].lines

IsProjectNameLine(l) == l.table = "project" /\ l.key = "name"

\* the destination manifest is the template's manifest with the value of
\* project.name set to n and nothing else changed
ManifestRenamedTo(n) ==
    LET src == tpl[<< PYPROJECT >>].lines
    IN  /\ Len(DestManifest) = Len(src)
        /\ \A k \in 1..Len(src) :
              IF IsProjectNameLine(src[k])
              THEN DestManifest[k] = [src[k] EXCEPT !.val = n]
              ELSE DestManifest[k] = src[k]

\* C1: whenever resolution has completed, the resolved project_name
\* satisfies ProjectNameValidator.is_valid.
C1_ResolvedNameIsValid ==
    resolved => (project_name # None /\ is_valid(project_name[1]))

C2_StateAtResolution ==
    pc = "validate_template" =>
        \/ project_path \notin DOMAIN fs
        \/ /\ project_path = Cwd
           /\ ~ \E p \in DOMAIN fs : Len(p) = 1

C2_ExistingPathPrompts ==
    ( /\ pc = "avail"
      /\ project_path \in DOMAIN fs
      /\ ~(project_path = Cwd /\ ~ \E p \in DOMAIN fs : Len(p) = 1)
      /\ pc' # "done" )
    => (pc' = "prompt_avail" /\ ~resolved')

\* C2: with nobody else changing the filesystem, whenever resolution
\* completes the resolved path does not exist, or it is cwd and cwd is empty;
\* and a pass of the availability loop that finds an existing path (other
\* than the empty cwd) never completes resolution: it prompts again.
C2_ResolvedPathIsFree ==
    [] C2_StateAtResolution /\ [][C2_ExistingPathPrompts]_vars

\* C2 witness: a valid replacement name whose path also exists was entered
\* at the availability prompt and the prompt has been issued again.
C2_Witness ==
    /\ pc = "prompt_avail"
    /\ args.name = Some(<<"a">>)
    /\ project_name = Some(<<"a", "b">>)
    /\ project_path = << <<"a", "b">> >>
    /\ project_path \in DOMAIN fs
    /\ prompts >= 2

\* C3: under --dry-run the filesystem never differs from the filesystem at
\* start, in any state of any run (success, failure or interrupt).
C3_DryRunLeavesFilesystem ==
    args.dry => (fs = fs0 /\ wrote = {})

\* C3 witness: a dry run that went through the preview and succeeded, for a
\* project that would have needed a new directory.
C3_Witness ==
    /\ args.dry
    /\ pc = "done"
    /\ exit_code = Some(SUCCESS)
    /\ project_path # Cwd

\* C4: after a real run whose copy succeeded, for a template manifest with a
\* project.name field, the rewrite fails with the pattern-mismatch error only
\* when the text  name = "<old>"  is absent from the file, and once the
\* manifest is written its project.name is the resolved name and everything
\* else equals the template's manifest.
C4_ManifestRewrite ==
    (~args.dry /\ TemplateHasProjectName) =>
        /\ err = "PatternMismatch" => ~TemplatePatternPresent
        /\ "manifest" \in wrote => ManifestRenamedTo(project_name[1])

\* C5: with no name argument, an empty cwd and an invalid cwd base name,
\* resolution eventually prompts the user (or the run is ended from outside).
C5_InvalidCwdNameLeadsToPrompt ==
    ( /\ pc = "resolve"
      /\ project_name = None
      /\ args.name = None
      /\ InitiallyEmptyCwd
      /\ ~is_valid(cwd_name) )
    ~> (pc \in PromptPcs \/ outcome # "running")

\* C6: with no name argument, an empty cwd and a valid cwd base name,
\* resolution completes without a prompt on (cwd base name, cwd); a real run
\* makes no directory, copies the template's entries into cwd and rewrites
\* the manifest's project.name to the base name.
C6_EmptyCwdIsReused ==
    (args.name = None /\ InitiallyEmptyCwd /\ is_valid(cwd_name)) =>
        /\ prompts = 0
        /\ resolved => (project_name = Some(cwd_name) /\ project_path = Cwd)
        /\ "mkdir" \notin wrote
        /\ (~args.dry /\ pc \in {"update_pyproject", "update_readme", "print_success"})
              => \A q \in DOMAIN tpl : q \in DOMAIN fs
        /\ (~args.dry /\ TemplateHasProjectName /\ TemplatePatternPresent) =>
              /\ err # "PatternMismatch"
              /\ "manifest" \in wrote =>
                    ParsedProjectName(DestManifest) = Some(cwd_name)

\* C7: when the requested template is not a directory under the templates
\* root, the run never gets past template validation, never returns success,
\* ends with exit code 1 unless it was interrupted or lost its input first,
\* names every directory under the templates root in the message, and has
\* changed nothing on disk.
C7_TemplateNotFound ==
    ~TemplateIsDir =>
        /\ pc \in { "create", "resolve", "prompt_unnamed", "prompt_named", "avail",
                    "prompt_avail", "validate_template", "done" }
        /\ fs = fs0
        /\ exit_code # Some(SUCCESS)
        /\ (pc = "done" /\ resolved /\ err # "KeyboardInterrupt") =>
              /\ err = "TemplateNotFound"
              /\ outcome = "returned"
              /\ exit_code = Some(ERROR)
              /\ errLines = 1
              /\ listed = { n \in TemplateNames :
                              templates # None /\ templates[1][n] = "dir" }
        /\ err # "TemplateNotFound" => listed = {}

\* C7 witness: the requested name is a plain file under the templates root,
\* another template directory exists and is listed.
C7_Witness ==
    /\ err = "TemplateNotFound"
    /\ templates # None
    /\ templates[1][args.template] = "file"
    /\ listed = {"blog"}

Failures ==
    { "TemplateNotFound", "ManifestMissing", "TOMLDecodeError", "FieldMissing",
      "PatternMismatch", "ReadmeMissing", "DestinationExists", "EOFError" }

\* C8: create() returns 0 exactly when no step raised, and then every step
\* ran (resolution, template validation, preview or copy, and in real mode
\* both rewrites); it returns 1 with one error line for every failure that
\* is not an interrupt; it returns 3 only for an interrupt.
C8_ExitCodes ==
    outcome = "returned" =>
        /\ exit_code \in { Some(SUCCESS), Some(ERROR), Some(KEYBOARD_INTERRUPT) }
        /\ exit_code = Some(SUCCESS) <=> err = "none"
        /\ exit_code = Some(ERROR) <=> err \in Failures
        /\ exit_code = Some(KEYBOARD_INTERRUPT) <=> err = "KeyboardInterrupt"
        /\ errLines = (IF err \in Failures THEN 1 ELSE 0)
        /\ exit_code = Some(SUCCESS) =>
              /\ resolved
              /\ TemplateIsDir
              /\ args.dry => wrote = {}
              /\ ~args.dry => ( /\ {"manifest", "readme"} \subseteq wrote
                                /\ copyLeft = {}
                                /\ \A q \in DOMAIN tpl :
                                      (project_path \o q) \in DOMAIN fs )

\* C8 witness: a real run that copied the template and failed in the README
\* step returned 1.
C8_Witness ==
    /\ outcome = "returned"
    /\ err = "ReadmeMissing"
    /\ exit_code = Some(ERROR)
    /\ "manifest" \in wrote

\* C9: an interrupt at any point of the operation makes create() return 3
\* with the cancellation notice; it never escapes create().
C9_InterruptReturnsThree ==
    err = "KeyboardInterrupt" =>
        /\ outcome = "returned"
        /\ exit_code = Some(KEYBOARD_INTERRUPT)
        /\ notice

\* the rule of the documentation, character by character
StartsWithLetterOrUnderscore(s) == Len(s) >= 1 /\ s[1] \in Letters \cup {"_"}
EndsWithLetterOrDigit(s) == Len(s) >= 1 /\ s[Len(s)] \in Letters \cup Digits
OnlyWordCharacters(s) == \A k \in 1..Len(s) : s[k] \in Letters \cup Digits \cup {"_"}

DocumentedRule(s) ==
    /\ s \notin Keywords
    /\ \/ (Len(s) = 1 /\ s[1] \in Letters)
       \/ /\ StartsWithLetterOrUnderscore(s)
          /\ EndsWithLetterOrDigit(s)
          /\ OnlyWordCharacters(s)

\* C10: for every string s, is_valid(s) is true iff s is not a keyword and
\* s is a single letter or starts with a letter or underscore, ends with a
\* letter or digit and consists only of letters, digits and underscores.
C10_IsValidIffDocumentedRule ==
    v_out # None => (v_out[1] <=> DocumentedRule(v_in))

\* the first rule of the documented order that s fails
FirstFailingRule(s) ==
    IF s = EmptyStr THEN "empty"
    ELSE IF s \in Keywords THEN "keyword"
    ELSE IF ~StartsWithLetterOrUnderscore(s) THEN "start"
    ELSE IF ~EndsWithLetterOrDigit(s) THEN "end"
    ELSE IF ~OnlyWordCharacters(s) THEN "characters"
    ELSE "none"

\* C11: for every name that is_valid rejects, get_error_message gives the
\* message of the first rule the name fails, in the order non-empty, not a
\* keyword, start, end, allowed characters.
C11_MessageOfFirstFailingRule ==
    v_msg # None => v_msg[1] = FirstFailingRule(v_in)

\* C12: an empty response to a prompt during resolution aborts resolution:
\* create() is back at the top level with no resolved project, nothing on
\* disk has changed, and the outcome is a cancellation, not exit code 1.
C12_EmptyResponseAborts ==
    reply = Some(EmptyStr) =>
        /\ pc = "done"
        /\ outcome = "returned"
        /\ ~resolved
        /\ exit_code # Some(ERROR)
        /\ fs = fs0

C12_EmptyResponseStep ==
    (pc \in PromptPcs /\ reply' = Some(EmptyStr)) =>
        /\ pc' = "resolve"
        /\ outcome' = "running"
        /\ exit_code' = None
        /\ err' = "none"
        /\ ~resolved'
        /\ ~Truthy(project_name')
        /\ fs' = fs
        /\ wrote' = wrote

\* C12 as amended: an empty response to a prompt during resolution does not
\* abort resolution and is neither a cancellation nor an error: create()
\* keeps running with no resolved project, the candidate name is reset (to
\* absent, or to the empty string), the resolution loop restarts, and the
\* response causes no filesystem write.
C12_EmptyResponseRestarts == [][C12_EmptyResponseStep]_vars

\* C12 witness: an empty response was given at the "already exists" prompt
\* and resolution is back at the top of its loop with no candidate name.
C12_Witness ==
    /\ asked = "prompt_avail"
    /\ reply = Some(EmptyStr)
    /\ pc = "resolve"
    /\ project_name = None
    /\ outcome = "running"

\* one step of create(), as the policy for invalid names requires it
C13_InvalidNameStep ==
    /\ (resolved' /\ ~resolved) =>
          /\ project_name' # None
          /\ is_valid(project_name'[1])
          /\ (args.name # None /\ ~is_valid(args.name[1])) =>
                (diag # None /\ prompts >= 1)
    /\ (pc = "resolve" /\ project_name # None /\ ~is_valid(project_name[1])
          /\ pc' # "done") =>
          (pc' = "prompt_named" /\ diag' = project_name)
    /\ (pc \in PromptPcs /\ reply' # None /\ ~is_valid(reply'[1])) =>
          (outcome' = "running" /\ ~resolved' /\ err' = "none")

\* C13: an invalid name never ends the run as a failure and is never
\* accepted: the resolved name is valid, an invalid name argument is
\* answered by a diagnostic and a prompt before resolution completes, an
\* invalid response is followed by another prompt, and exit code 1 never
\* comes from a name.
C13_InvalidNameNeverAccepted == [][C13_InvalidNameStep]_vars

\* the document the README step is to leave behind for the name n: a heading
\* line, a blank line and the attribution line, and nothing else
HeadingLine(n) == <<"# ">> \o n \o <<"\n">>
AttributionLine == <<"Created with Tawala CLI", "\n">>
ReadmeDocument(n) == HeadingLine(n) \o <<"\n">> \o AttributionLine

DestReadme == project_path \o << README >>

\* the README step has run to its end: the run is past update_readme and was
\* not cut short by an interrupt
ReadmeStepOver ==
    /\ "manifest" \in wrote
    /\ pc \in {"print_success", "done"}
    /\ err # "KeyboardInterrupt"

\* C14: after a real run in which the manifest rewrite succeeded, a README
\* file of the copied tree holds exactly the heading "# N" and the attribution
\* line, whatever the template's README contained; with no README file in the
\* copied tree the run fails with exit code 1 and no README file is created.
C14_ReadmeRegenerated ==
    /\ ReadmeStepOver =>
          IF << README >> \in DOMAIN tpl
          THEN /\ DestReadme \in DOMAIN fs
               /\ fs[DestReadme] = PlainFile(ReadmeDocument(project_name[1]))
               /\ "readme" \in wrote
               /\ err = "none"
          ELSE /\ DestReadme \notin DOMAIN fs
               /\ "readme" \notin wrote
               /\ err = "ReadmeMissing"
               /\ exit_code = Some(ERROR)
    /\ "readme" \in wrote => "manifest" \in wrote /\ ~args.dry

\* C14 witness: a several-line template README was replaced in a finished run
C14_Witness ==
    /\ ReadmeStepOver
    /\ pc = "done"
    /\ exit_code = Some(SUCCESS)
    /\ tpl[<< README >>] = LongReadme
    /\ fs[DestReadme] = PlainFile(ReadmeDocument(project_name[1]))
    /\ project_name # Some(OldName)

\* the paths whose content a step creates or changes
Written == { p \in DOMAIN fs' : p \notin DOMAIN fs \/ fs'[p] # fs[p] }

IsPrefix(s, p) == Len(s) <= Len(p) /\ SubSeq(p, 1, Len(s)) = s

WritingPcs == { "create_structure", "copy", "update_pyproject", "update_readme" }

C15_Step ==
    /\ (fs' # fs \/ wrote' # wrote) =>
          /\ resolved
          /\ TemplateIsDir
          /\ pc \in WritingPcs
          /\ \A p \in Written : IsPrefix(project_path, p)
          /\ DOMAIN fs \subseteq DOMAIN fs'
    /\ resolved =>
          /\ resolved'
          /\ project_name' = project_name
          /\ project_path' = project_path

\* C15: no filesystem write (mkdir, copy, manifest write, README write)
\* happens before resolution has completed and the template has been
\* validated, and once resolution has completed project_name and project_path
\* never change again, so every write lands at or below the one resolved path.
C15_WritesFollowResolution == [][C15_Step]_vars

\* C15 witness: a run that prompted, then made the directory, copied, and
\* rewrote manifest and README, has ended
C15_Witness ==
    /\ pc = "done"
    /\ prompts >= 1
    /\ wrote = {"mkdir", "copy", "manifest", "readme"}
    /\ resolved

\* C16: in real mode, when another actor has populated the destination
\* after resolution and before instantiation starts, instantiation writes
\* nothing into the destination (nothing copied, nothing overwritten) and the
\* run ends with exit code 1, for a new sub-directory as for cwd itself.
C16_PopulatedDestinationFails ==
    (raced # None /\ ~args.dry /\ TemplateIsDir) =>
        /\ fs = raced[1]
        /\ exit_code # Some(SUCCESS)
        /\ (pc = "done" /\ err # "KeyboardInterrupt") =>
              (err = "DestinationExists" /\ exit_code = Some(ERROR))

PostCopyFailures ==
    { "ManifestMissing", "TOMLDecodeError", "FieldMissing", "PatternMismatch",
      "ReadmeMissing" }

\* the entry q of the template as it stands at the destination: as copied,
\* or, for the manifest after a successful rewrite, with its lines rewritten
CopyStillThere(q) ==
    LET p == project_path \o q
    IN  /\ p \in DOMAIN fs
        /\ \/ fs[p] = tpl[q]
           \/ /\ q = << PYPROJECT >>
              /\ "manifest" \in wrote
              /\ fs[p].kind = "file"

\* C17: when a post-copy step fails in real mode, create() returns exit code
\* 1 and rolls nothing back: the destination directory and every entry
\* copied from the template are still present, and nothing that was there
\* before the run is deleted or changed.
C17_NoRollback ==
    err \in PostCopyFailures =>
        /\ pc = "done"
        /\ exit_code = Some(ERROR)
        /\ ~args.dry
        /\ project_path \in DOMAIN fs
        /\ fs[project_path] = Dir
        /\ \A q \in DOMAIN tpl : CopyStillThere(q)
        /\ \A p \in DOMAIN fs0 : p \in DOMAIN fs /\ fs[p] = fs0[p]

\* C17 witness: the README step failed after directory, copy and manifest
\* rewrite had been done
C17_Witness ==
    /\ err = "ReadmeMissing"
    /\ wrote = {"mkdir", "copy", "manifest"}
    /\ (project_path \o << APP, MODELS >>) \in DOMAIN fs

C18_Step ==
    /\ (args.name = None /\ ~InitiallyEmptyCwd /\ prompts = 0 /\ pc = "resolve") =>
          (pc' \in {"prompt_unnamed", "done"} /\ diag' = None /\ ~resolved')
    /\ (pc = "prompt_unnamed" /\ reply' = Some(EmptyStr)) =>
          /\ project_name' = None
          /\ project_path' = project_path
          /\ outcome' = "running"
          /\ err' = "none"
    /\ (asked = "prompt_unnamed" /\ reply = Some(EmptyStr) /\ pc \notin PromptPcs
          /\ pc' \in PromptPcs) =>
          pc' = "prompt_unnamed"

\* C18: with no name argument and a non-empty current directory, resolution
\* first prompts for a name, before any validation, existence check or
\* template validation; an empty response to that prompt is not a failure,
\* leaves project_name absent and project_path unchanged, and the next prompt
\* is that same prompt again.
C18_EmptyResponseReprompts == [][C18_Step]_vars

\* C19: whenever resolution completes, the resolved path belongs to the
\* resolved name: project_path is cwd joined with project_name, or
\* project_path is cwd and project_name is the base name of cwd.
C19_PathBelongsToName ==
    resolved =>
        /\ project_name # None
        /\ \/ project_path = Join(project_name[1])
           \/ project_path = Cwd /\ project_name = Some(cwd_name)

ManifestStepFailures ==
    { "ManifestMissing", "TOMLDecodeError", "FieldMissing", "PatternMismatch" }

\* the README step runs only after a successful manifest step
C20_Order == "readme" \in wrote => "manifest" \in wrote

\* a failed manifest step leaves manifest and README as they were copied
C20_FailureFrame ==
    err \in ManifestStepFailures =>
        /\ "readme" \notin wrote
        /\ "manifest" \notin wrote
        /\ HasManifest(tpl) =>
              fs[project_path \o << PYPROJECT >>] = tpl[<< PYPROJECT >>]
        /\ << README >> \in DOMAIN tpl => fs[DestReadme] = tpl[<< README >>]

\* the README is regenerated only with project.name already rewritten
C20_NameBeforeReadme ==
    "readme" \in wrote => ParsedProjectName(DestManifest) = project_name

\* C20: the post-processing steps run in the order manifest, README; a
\* failed manifest step leaves the manifest as copied and the README as the
\* template's; and at every point of every run, also after an interrupt, the
\* README is regenerated only if the manifest's project name has been
\* rewritten.
C20_ManifestBeforeReadme ==
    /\ C20_Order
    /\ C20_FailureFrame
    /\ C20_NameBeforeReadme

====
